---- MODULE Spec2Model ----
(***************************************************************************)
(* Announcements router (src/backend/routers/announcements.py): the five   *)
(* handlers get_active_announcements, get_all_announcements,               *)
(* create_announcement, update_announcement and delete_announcement over   *)
(* a document store.  Every store call is atomic; a handler that makes     *)
(* several store calls (update: find_one, update_one, find_one; delete:    *)
(* find_one, delete_one) is one step per store call so that requests       *)
(* interleave between them.                                                *)
(***************************************************************************)
EXTENDS Integers, Sequences, FiniteSets, Bags, TLC

VARIABLES
    store,      \* announcements_collection: _id -> document
    nextId,     \* the next _id insert_one assigns
    now,        \* what datetime.now() returns
    inflight,   \* the requests between two store calls of their handler (a bag)
    resp,       \* the latest call's request and response
    probe,      \* the request under test
    born,       \* history: _id -> the clock at its insert
    deleted,    \* history: the ids deleted so far
    lastWrite   \* history: _id -> the fields its latest create or update wrote

vars == <<store, nextId, now, inflight, resp, probe, born, deleted, lastWrite>>

(* ------------------------------ bounds --------------------------------- *)
\* the clock (datetime.now()) runs over 0..MaxTime
MaxTime == 1
\* wall-clock values a date string can carry are 0..MaxWall
MaxWall == 2
\* number of records the store ever assigns an id to
MaxIds == 2
\* the same, where requests interleave or carry every form of input
FewIds == 1
\* number of requests that can be between two store calls at once
NumProcs == 2

(* --------------------------- Optional values --------------------------- *)
None == << >>
Some(x) == <<x>>

(* ------------------------------ strings -------------------------------- *)
\* a message is a sequence of characters; " " is whitespace
RECURSIVE lstrip(_)
lstrip(s) == IF s # << >> /\ Head(s) = " " THEN lstrip(Tail(s)) ELSE s

RECURSIVE rstrip(_)
rstrip(s) == IF s # << >> /\ s[Len(s)] = " " THEN rstrip(SubSeq(s, 1, Len(s) - 1)) ELSE s

\* str.strip()
strip(s) == rstrip(lstrip(s))

\* a date string: form "iso" is "<wall><zone>" with zone "", "Z" or "+01:00";
\* form "bad" is text that is no ISO date, form "empty" is ""
DateStr(w, z) == [form |-> "iso", wall |-> w, zone |-> z]
BadDate == [form |-> "bad", wall |-> 0, zone |-> ""]
EmptyDate == [form |-> "empty", wall |-> 0, zone |-> ""]

\* expiration_date.replace('Z', '+00:00')
replace_Z(s) == IF s.zone = "Z" THEN [s EXCEPT !.zone = "+00:00"] ELSE s

\* datetime.fromisoformat: ok = FALSE stands for ValueError; a datetime is its
\* wall-clock reading and its tzinfo ("" for a naive datetime)
fromisoformat(s) == [ok |-> s.form = "iso", wall |-> s.wall, tz |-> s.zone]

\* datetime.isoformat()
isoformat(dt) == DateStr(dt.wall, dt.tz)

\* hours east of UTC of a tzinfo
utcoffset(tz) == IF tz = "+01:00" THEN 1 ELSE 0

\* the instant an aware datetime denotes; a naive one is compared by its wall clock
instant(dt) == dt.wall - utcoffset(dt.tz)

\* comparing a naive with an aware datetime raises TypeError
comparable(a, b) == (a.tz = "") = (b.tz = "")

\* datetime.now(): naive
datetime_now(clock) == [ok |-> TRUE, wall |-> clock, tz |-> ""]

\* the driver stores a datetime as a UTC instant (a naive one is taken as UTC)
\* and reads it back as a naive datetime
to_bson(dt) == instant(dt)
from_bson(t) == [ok |-> TRUE, wall |-> t, tz |-> ""]

\* str(ObjectId) and ObjectId(str): a malformed string raises
IdStr(n) == [hex |-> n, wellformed |-> TRUE]
BadIdStr == [hex |-> 0, wellformed |-> FALSE]
ObjectId(s) == IF s.wellformed THEN Some(s.hex) ELSE None

(* --------------------------- boundary statuses ------------------------- *)
StatusOK == 200
StatusAuthRequired == 401
StatusInvalidCredentials == 401
StatusBadRequest == 400
StatusNotFound == 404
StatusInternalError == 500

Err(s, d) == [status |-> s, detail |-> d]
OK == Err(StatusOK, "OK")
\* a call that passed its checks and has not returned yet
Pending == Err(0, "pending")
\* an exception no handler catches (TypeError) leaves the framework as a 500
Unhandled == Err(StatusInternalError, "Internal Server Error")

(* ------------------------------ the stores ----------------------------- *)
\* teachers_collection: the known principals
Teachers == {"mrodriguez"}

teachers_find_one(u) == IF u \in Teachers THEN Some(u) ELSE None

find_one(st, id) == IF id \in DOMAIN st THEN Some(st[id]) ELSE None

insert_one(st, id, doc) == (id :> [doc EXCEPT !._id = id]) @@ st

\* update_one as an upsert: a plausible slip that re-inserts a deleted record
update_one_upsert(st, id, data) ==
    IF id \in DOMAIN st
    THEN [st EXCEPT ![id] = [@ EXCEPT !.message = data.message,
                                      !.start_date = data.start_date,
                                      !.expiration_date = data.expiration_date]]
    ELSE (id :> [_id |-> id, message |-> data.message, start_date |-> data.start_date,
                 expiration_date |-> data.expiration_date, created_at |-> 0]) @@ st

\* update_one that matches every document instead of the one with the given _id
update_one_all(st, id, data) ==
    [x \in DOMAIN st |-> [st[x] EXCEPT !.message = data.message,
                                       !.start_date = data.start_date,
                                       !.expiration_date = data.expiration_date]]

\* update_one that leaves start_date as it was
update_one_partial(st, id, data) ==
    IF id \in DOMAIN st
    THEN [st EXCEPT ![id] = [@ EXCEPT !.message = data.message,
                                      !.expiration_date = data.expiration_date]]
    ELSE st

\* update_one({"_id": id}, {"$set": data}): one document, the three fields at once,
\* nothing when no document matches
update_one(st, id, data) ==
    IF id \in DOMAIN st
    THEN [st EXCEPT ![id] = [@ EXCEPT !.message = data.message,
                                      !.start_date = data.start_date,
                                      !.expiration_date = data.expiration_date]]
    ELSE st

delete_one(st, id) == [x \in DOMAIN st \ {id} |-> st[x]]

\* the active window with the expiration bound included
ActiveQuery_Inclusive(doc, t) ==
    /\ doc.expiration_date >= t
    /\ (doc.start_date = None \/ doc.start_date[1] <= t)

\* {"$and": [{"expiration_date": {"$gt": now}},
\*           {"$or": [{"start_date": None}, {"start_date": {"$lte": now}}]}]}
ActiveQuery(doc, t) ==
    /\ doc.expiration_date > t
    /\ (doc.start_date = None \/ doc.start_date[1] <= t)

\* .sort("created_at", -1): newest first; equal created_at in store order (by id)
Newer(a, b) == a.created_at > b.created_at \/ (a.created_at = b.created_at /\ a._id < b._id)

RECURSIVE SortDesc(_)
SortDesc(docs) ==
    IF docs = {} THEN << >>
    ELSE LET d == CHOOSE x \in docs : \A y \in docs \ {x} : Newer(x, y)
         IN <<d>> \o SortDesc(docs \ {d})

\* the conversion every handler applies before returning a document
Render(doc) ==
    [_id |-> IdStr(doc._id),
     message |-> doc.message,
     start_date |-> IF doc.start_date # None
                    THEN Some(isoformat(from_bson(doc.start_date[1])))
                    ELSE None,
     expiration_date |-> isoformat(from_bson(doc.expiration_date)),
     created_at |-> isoformat(from_bson(doc.created_at))]

RenderAll(docs) == [i \in 1..Len(docs) |-> Render(docs[i])]

(* ------------------------------ requests ------------------------------- *)
Req(u, i, m, e, s) ==
    [teacher_username |-> u, announcement_id |-> i, message |-> m,
     expiration_date |-> e, start_date |-> s]

NoReq == Req(None, BadIdStr, << >>, BadDate, None)

\* "if not teacher_username" / "if not teacher"
AuthFailure_NoLookup(u) ==
    IF u = None \/ u[1] = ""
    THEN Some(Err(StatusAuthRequired, "Authentication required for this action"))
    ELSE None

AuthFailure(u) ==
    IF u = None \/ u[1] = ""
    THEN Some(Err(StatusAuthRequired, "Authentication required for this action"))
    ELSE IF teachers_find_one(u[1]) = None
         THEN Some(Err(StatusInvalidCredentials, "Invalid teacher credentials"))
         ELSE None

\* "not message or len(message.strip()) == 0"
MessageEmpty(m) == m = << >> \/ Len(strip(m)) = 0

\* "if start_date:" an absent or empty string supplies no start date
HasStart(s) == s # None /\ s[1].form # "empty"

ParseExp(r) == fromisoformat(replace_Z(r.expiration_date))
ParseStart(r) == fromisoformat(replace_Z(r.start_date[1]))

\* "exp_date <= datetime.now()"
ExpNotFuture(e, n) == instant(e) <= instant(n)

\* "start_dt >= exp_date" without the equal case
StartNotBefore_Strict(s, e) == instant(s) > instant(e)

\* "start_dt >= exp_date"
StartNotBefore(s, e) == instant(s) >= instant(e)

\* the date checks of create_announcement, after the message check
CreateDateChecks(r, clock) ==
    LET e == ParseExp(r)
        s == ParseStart(r)
    IN  IF ~e.ok
        THEN Err(StatusBadRequest, "Invalid expiration_date format. Use ISO format.")
        ELSE IF HasStart(r.start_date) /\ ~s.ok
        THEN Err(StatusBadRequest, "Invalid start_date format. Use ISO format.")
        ELSE IF ~comparable(e, datetime_now(clock)) THEN Unhandled
        ELSE IF ExpNotFuture(e, datetime_now(clock))
        THEN Err(StatusBadRequest, "Expiration date must be in the future")
        ELSE IF HasStart(r.start_date) /\ ~comparable(s, e) THEN Unhandled
        ELSE IF HasStart(r.start_date) /\ StartNotBefore(s, e)
        THEN Err(StatusBadRequest, "Start date must be before expiration date")
        ELSE OK

\* create_announcement up to the insert: the response it raises, or OK
CreateChecks(r, clock) ==
    IF AuthFailure(r.teacher_username) # None THEN AuthFailure(r.teacher_username)[1]
    ELSE IF MessageEmpty(r.message)
    THEN Err(StatusBadRequest, "Message cannot be empty")
    ELSE CreateDateChecks(r, clock)

\* the date checks of update_announcement with create's future check added
UpdateDateChecks_Future(r) ==
    LET e == ParseExp(r)
        s == ParseStart(r)
    IN  IF ~e.ok
        THEN Err(StatusBadRequest, "Invalid expiration_date format. Use ISO format.")
        ELSE IF HasStart(r.start_date) /\ ~s.ok
        THEN Err(StatusBadRequest, "Invalid start_date format. Use ISO format.")
        ELSE IF ~comparable(e, datetime_now(now)) THEN Unhandled
        ELSE IF ExpNotFuture(e, datetime_now(now))
        THEN Err(StatusBadRequest, "Expiration date must be in the future")
        ELSE IF HasStart(r.start_date) /\ ~comparable(s, e) THEN Unhandled
        ELSE IF HasStart(r.start_date) /\ StartNotBefore(s, e)
        THEN Err(StatusBadRequest, "Start date must be before expiration date")
        ELSE OK

\* the date checks of update_announcement: no comparison with the clock
UpdateDateChecks(r) ==
    LET e == ParseExp(r)
        s == ParseStart(r)
    IN  IF ~e.ok
        THEN Err(StatusBadRequest, "Invalid expiration_date format. Use ISO format.")
        ELSE IF HasStart(r.start_date) /\ ~s.ok
        THEN Err(StatusBadRequest, "Invalid start_date format. Use ISO format.")
        ELSE IF HasStart(r.start_date) /\ ~comparable(s, e) THEN Unhandled
        ELSE IF HasStart(r.start_date) /\ StartNotBefore(s, e)
        THEN Err(StatusBadRequest, "Start date must be before expiration date")
        ELSE OK

\* update_announcement up to update_one, against the store it reads at find_one
UpdateChecks(r, st) ==
    IF AuthFailure(r.teacher_username) # None THEN AuthFailure(r.teacher_username)[1]
    ELSE IF ObjectId(r.announcement_id) = None
    THEN Err(StatusBadRequest, "Invalid announcement ID format")
    ELSE IF find_one(st, ObjectId(r.announcement_id)[1]) = None
    THEN Err(StatusNotFound, "Announcement not found")
    ELSE IF MessageEmpty(r.message)
    THEN Err(StatusBadRequest, "Message cannot be empty")
    ELSE UpdateDateChecks(r)

\* delete_announcement up to delete_one
DeleteChecks(r, st) ==
    IF AuthFailure(r.teacher_username) # None THEN AuthFailure(r.teacher_username)[1]
    ELSE IF ObjectId(r.announcement_id) = None
    THEN Err(StatusBadRequest, "Invalid announcement ID format")
    ELSE IF find_one(st, ObjectId(r.announcement_id)[1]) = None
    THEN Err(StatusNotFound, "Announcement not found")
    ELSE OK

\* the three fields create and update write, as the store holds them
WriteData(r) ==
    [message |-> strip(r.message),
     start_date |-> IF HasStart(r.start_date) THEN Some(to_bson(ParseStart(r))) ELSE None,
     expiration_date |-> to_bson(ParseExp(r))]

Fields(doc) ==
    [message |-> doc.message, start_date |-> doc.start_date,
     expiration_date |-> doc.expiration_date]

\* the dict create_announcement returns: built from its local values, not re-read
CreateReturn(r, id, clock) ==
    [_id |-> IdStr(id),
     message |-> strip(r.message),
     start_date |-> IF HasStart(r.start_date) THEN Some(isoformat(ParseStart(r))) ELSE None,
     expiration_date |-> isoformat(ParseExp(r)),
     created_at |-> isoformat(datetime_now(clock))]

(* ------------------------------ the state ------------------------------ *)
\* a request between two store calls of its handler: where it is, its
\* parameters and obj_id, whether its id had been deleted before it began, and
\* the fields another update wrote to its record after its own write, if one did
InFlight(pc, r, stale) ==
    [pc |-> pc, req |-> r, obj_id |-> ObjectId(r.announcement_id)[1],
     stale |-> stale, clobbered |-> None]

\* the latest event at the boundary: the operation, its request, status and
\* detail (Pending while the call is between two store calls), the returned
\* documents, and what the call saw (the clock it read, stale and clobbered as
\* in InFlight)
Response(op, r, e, body, clock, stale, clobbered) ==
    [op |-> op, req |-> r, status |-> e.status, detail |-> e.detail, body |-> body,
     clock |-> clock, stale |-> stale, clobbered |-> clobbered]

\* the router after import: an empty collection, no request in flight
InitStore ==
    /\ store = << >>
    /\ nextId = 1
    /\ now = 0
    /\ inflight = EmptyBag
    /\ resp = Response("none", NoReq, OK, << >>, 0, FALSE, None)
    /\ born = << >>
    /\ deleted = {}
    /\ lastWrite = << >>

ghosts == <<born, deleted, lastWrite>>

AllIdle == inflight = EmptyBag
WorkerFree == BagCardinality(inflight) < NumProcs

RECURSIVE Copies(_, _)
Copies(B, S) ==
    IF S = {} THEN 0
    ELSE LET x == CHOOSE y \in S : TRUE IN B[x] + Copies(B, S \ {x})

\* what the write of data to the record id does to another request in flight:
\* one that is about to re-read that record will read data
Clobber(q, id, data) ==
    IF q.pc = "reread" /\ q.obj_id = id THEN [q EXCEPT !.clobbered = Some(data)] ELSE q

ClobberAll(B, id, data) ==
    [y \in {Clobber(q, id, data) : q \in DOMAIN B} |->
        Copies(B, {q \in DOMAIN B : Clobber(q, id, data) = y})]

(* ------------------------------ handlers ------------------------------- *)
Tick ==
    /\ now < MaxTime
    /\ now' = now + 1
    /\ UNCHANGED <<probe, store, nextId, inflight, resp, ghosts>>

get_active_announcements ==
    /\ resp' = Response("get_active", NoReq, OK,
                        RenderAll(SortDesc({store[i] : i \in
                            {j \in DOMAIN store :
                                ActiveQuery(store[j], to_bson(datetime_now(now)))}})),
                        now, FALSE, None)
    /\ UNCHANGED <<probe, store, nextId, now, inflight, ghosts>>

get_all_announcements(r) ==
    /\ resp' = IF AuthFailure(r.teacher_username) # None
               THEN Response("get_all", r, AuthFailure(r.teacher_username)[1], << >>,
                             now, FALSE, None)
               ELSE Response("get_all", r, OK,
                             RenderAll(SortDesc({store[i] : i \in DOMAIN store})),
                             now, FALSE, None)
    /\ UNCHANGED <<probe, store, nextId, now, inflight, ghosts>>

\* ids is the number of ids the store can assign
create_announcement(r, ids) ==
    LET c == CreateChecks(r, now)
        doc == [_id |-> 0, created_at |-> to_bson(datetime_now(now))] @@ WriteData(r)
    IN  IF c # OK
        THEN /\ resp' = Response("create", r, c, << >>, now, FALSE, None)
             /\ UNCHANGED <<probe, store, nextId, now, inflight, ghosts>>
        ELSE /\ nextId <= ids
             /\ store' = insert_one(store, nextId, doc)
             /\ nextId' = nextId + 1
             /\ resp' = Response("create", r, OK, <<CreateReturn(r, nextId, now)>>,
                                 now, FALSE, None)
             /\ born' = (nextId :> now) @@ born
             /\ lastWrite' = (nextId :> WriteData(r)) @@ lastWrite
             /\ UNCHANGED <<probe, now, inflight, deleted>>

\* whether the id of r was deleted before the call began
Stale(r) == ObjectId(r.announcement_id) # None /\ ObjectId(r.announcement_id)[1] \in deleted

\* update_announcement, from its start to the find_one of the existence check
\* and the validation that follows it
update_begin(r) ==
    /\ WorkerFree
    /\ LET c == UpdateChecks(r, store)
       IN  IF c # OK
           THEN /\ resp' = Response("update", r, c, << >>, now, Stale(r), None)
                /\ UNCHANGED inflight
           ELSE /\ inflight' = inflight (+) SetToBag({InFlight("update_one", r, Stale(r))})
                /\ resp' = Response("update", r, Pending, << >>, now, Stale(r), None)
    /\ UNCHANGED <<probe, store, nextId, now, ghosts>>

\* update_announcement: the update_one call
update_write(s) ==
    /\ BagIn(s, inflight)
    /\ s.pc = "update_one"
    /\ LET data == WriteData(s.req)
           others == inflight (-) SetToBag({s})
       IN  /\ store' = update_one(store, s.obj_id, data)
           /\ lastWrite' = IF s.obj_id \in DOMAIN store
                           THEN [lastWrite EXCEPT ![s.obj_id] = data]
                           ELSE lastWrite
           /\ inflight' = (IF s.obj_id \in DOMAIN store
                           THEN ClobberAll(others, s.obj_id, data)
                           ELSE others)
                          (+) SetToBag({[s EXCEPT !.pc = "reread"]})
    /\ UNCHANGED <<probe, nextId, now, resp, born, deleted>>

\* update_announcement: the final find_one and the conversion of what it returns;
\* subscripting the None of a missing record raises TypeError
update_reread(s) ==
    /\ BagIn(s, inflight)
    /\ s.pc = "reread"
    /\ LET found == find_one(store, s.obj_id)
       IN  resp' = IF found = None
                   THEN Response("update", s.req, Unhandled, << >>, now, s.stale, s.clobbered)
                   ELSE Response("update", s.req, OK, <<Render(found[1])>>,
                                 now, s.stale, s.clobbered)
    /\ inflight' = inflight (-) SetToBag({s})
    /\ UNCHANGED <<probe, store, nextId, now, ghosts>>

\* delete_announcement, from its start to the find_one of the existence check
delete_begin(r) ==
    /\ WorkerFree
    /\ LET c == DeleteChecks(r, store)
       IN  IF c # OK
           THEN /\ resp' = Response("delete", r, c, << >>, now, Stale(r), None)
                /\ UNCHANGED inflight
           ELSE /\ inflight' = inflight (+) SetToBag({InFlight("delete_one", r, Stale(r))})
                /\ resp' = Response("delete", r, Pending, << >>, now, Stale(r), None)
    /\ UNCHANGED <<probe, store, nextId, now, ghosts>>

\* delete_announcement: the delete_one call and the confirmation
delete_write(s) ==
    /\ BagIn(s, inflight)
    /\ s.pc = "delete_one"
    /\ store' = delete_one(store, s.obj_id)
    /\ deleted' = deleted \cup {s.obj_id}
    /\ resp' = Response("delete", s.req,
                        Err(StatusOK, "Announcement deleted successfully"), << >>,
                        now, s.stale, None)
    /\ inflight' = inflight (-) SetToBag({s})
    /\ UNCHANGED <<probe, nextId, now, born, lastWrite>>

(* ------------------------------ inputs --------------------------------- *)
Teacher == Some("mrodriguez")
Usernames == {None, Some(""), Some("ghost"), Teacher}
Messages == {<< >>, <<" ">>, <<" ", "a", " ">>, <<"b">>}
Zones == {"", "Z", "+01:00"}
DateStrs == {DateStr(w, z) : w \in 0..MaxWall, z \in Zones}
ExpInputs == {BadDate} \cup DateStrs
StartInputs == {None, Some(EmptyDate), Some(BadDate)} \cup {Some(d) : d \in DateStrs}
FarDate == DateStr(MaxWall, "")
IdInputs(ids) == {BadIdStr} \cup {IdStr(n) : n \in 1..ids}

\* the request under test, of every form: every credential, every id and every
\* message with one valid rest, and every pair of date strings with a valid rest
Requests ==
    {Req(u, IdStr(1), <<"b">>, FarDate, None) : u \in Usernames}
    \cup {Req(Teacher, i, m, FarDate, None) : i \in IdInputs(FewIds), m \in Messages}
    \cup {Req(Teacher, IdStr(n), <<" ", "a", " ">>, e, s) :
              n \in 1..FewIds, e \in ExpInputs, s \in StartInputs}

\* a create that always passes, so that there is a record to update and delete
Seed == Req(Teacher, BadIdStr, <<"s">>, DateStr(MaxTime + 1, ""), None)

\* plain requests: a known principal, naive dates; start before, at and after
\* the expiration
PlainWrite(m, s, e) ==
    Req(Teacher, BadIdStr, m, DateStr(e, ""), IF s < 0 THEN None ELSE Some(DateStr(s, "")))
PlainWrites ==
    {PlainWrite(<<"a">>, -1, 1), PlainWrite(<<"b", " ">>, 0, 2), PlainWrite(<<"a">>, 1, 2),
     PlainWrite(<<"b", " ">>, -1, 0), PlainWrite(<<"b", " ">>, 1, 1)}
FewWrites ==
    {PlainWrite(<<"a">>, -1, 1), PlainWrite(<<"b", " ">>, 0, 2),
     PlainWrite(<<"b", " ">>, 1, 1), PlainWrite(<<"a">>, 2, 1)}
\* the same with offset-aware dates: start before the expiration though its
\* wall clock is not, start at the instant of the expiration, and a naive
\* start with an aware expiration
ZoneWrites ==
    {PlainWrite(<<"b", " ">>, 0, 2), PlainWrite(<<"b", " ">>, 1, 1),
     Req(Teacher, BadIdStr, <<"a">>, DateStr(1, "Z"), Some(DateStr(1, "+01:00"))),
     Req(Teacher, BadIdStr, <<"a">>, DateStr(0, "Z"), Some(DateStr(1, "+01:00"))),
     Req(Teacher, BadIdStr, <<"a">>, DateStr(2, "Z"), Some(DateStr(0, "")))}
WithId(R, ids) == {[r EXCEPT !.announcement_id = IdStr(n)] : r \in R, n \in 1..ids}
PlainDeletes(ids) == {Req(Teacher, IdStr(n), << >>, BadDate, None) : n \in 1..ids}
PlainGetAll == Req(Teacher, BadIdStr, << >>, BadDate, None)

\* the update and delete requests of each specification, by id
StoreUpdates == WithId(PlainWrites, MaxIds)
StoreDeletes == PlainDeletes(MaxIds)
ConcUpdates == WithId(FewWrites, FewIds)
ConcDeletes == PlainDeletes(FewIds)
ZoneUpdates == WithId(ZoneWrites, FewIds)

InFlightNow == BagToSet(inflight)

(* --------------------------- specifications ---------------------------- *)
\* One request at a time (a handler runs from its first store call to its
\* return before the next request is taken, the clock runs on), the request
\* under test being any of Requests, after any number of seed records.
Init == InitStore /\ probe \in Requests

Next ==
    \/ Tick
    \/ AllIdle /\ get_active_announcements
    \/ AllIdle /\ get_all_announcements(probe)
    \/ AllIdle /\ create_announcement(Seed, FewIds)
    \/ AllIdle /\ create_announcement(probe, FewIds)
    \/ AllIdle /\ update_begin(probe)
    \/ \E s \in InFlightNow : update_write(s)
    \/ \E s \in InFlightNow : update_reread(s)
    \/ AllIdle /\ delete_begin(probe)
    \/ \E s \in InFlightNow : delete_write(s)

Spec == Init /\ [][Next]_vars

\* One request at a time, plain requests, several records.
StoreInit == InitStore /\ probe = NoReq

StoreNext ==
    \/ Tick
    \/ AllIdle /\ get_active_announcements
    \/ AllIdle /\ get_all_announcements(PlainGetAll)
    \/ AllIdle /\ \E r \in PlainWrites : create_announcement(r, MaxIds)
    \/ AllIdle /\ \E r \in StoreUpdates : update_begin(r)
    \/ \E s \in InFlightNow : update_write(s)
    \/ \E s \in InFlightNow : update_reread(s)
    \/ AllIdle /\ \E r \in StoreDeletes : delete_begin(r)
    \/ \E s \in InFlightNow : delete_write(s)

SpecStore == StoreInit /\ [][StoreNext]_vars

\* Requests interleave between the store calls of a handler, up to NumProcs
\* of them in flight.
ConcNext ==
    \/ get_active_announcements
    \/ get_all_announcements(PlainGetAll)
    \/ \E r \in FewWrites : create_announcement(r, FewIds)
    \/ \E r \in ConcUpdates : update_begin(r)
    \/ \E s \in InFlightNow : update_write(s)
    \/ \E s \in InFlightNow : update_reread(s)
    \/ \E r \in ConcDeletes : delete_begin(r)
    \/ \E s \in InFlightNow : delete_write(s)

SpecConc == StoreInit /\ [][ConcNext]_vars

\* The same interleaving with naive and offset-aware dates.
ZoneNext ==
    \/ get_active_announcements
    \/ get_all_announcements(PlainGetAll)
    \/ \E r \in ZoneWrites : create_announcement(r, FewIds)
    \/ \E r \in ZoneUpdates : update_begin(r)
    \/ \E s \in InFlightNow : update_write(s)
    \/ \E s \in InFlightNow : update_reread(s)
    \/ \E r \in ConcDeletes : delete_begin(r)
    \/ \E s \in InFlightNow : delete_write(s)

SpecZone == StoreInit /\ [][ZoneNext]_vars

(* ------------------------------ properties ----------------------------- *)
AuthOps == {"get_all", "create", "update", "delete"}
Returned == resp.op # "none" /\ resp.status # Pending.status
NoCredential(r) == r.teacher_username = None \/ r.teacher_username = Some("")
KnownCredential(r) == ~NoCredential(r) /\ r.teacher_username[1] \in Teachers
UnknownCredential(r) == ~NoCredential(r) /\ r.teacher_username[1] \notin Teachers

InvalidArgumentDetails ==
    {"Message cannot be empty", "Invalid expiration_date format. Use ISO format.",
     "Invalid start_date format. Use ISO format.", "Expiration date must be in the future",
     "Start date must be before expiration date", "Invalid announcement ID format"}

\* the error kind of a response, read from its message
Kind(r) ==
    IF r.detail = "Authentication required for this action" THEN "Unauthenticated"
    ELSE IF r.detail = "Invalid teacher credentials" THEN "Unauthorized"
    ELSE IF r.detail \in InvalidArgumentDetails THEN "InvalidArgument"
    ELSE IF r.detail = "Announcement not found" THEN "NotFound"
    ELSE IF r.detail = Unhandled.detail THEN "Internal"
    ELSE IF r.detail = Pending.detail THEN "Pending"
    ELSE "Success"

BodyIds == {resp.body[i]._id.hex : i \in 1..Len(resp.body)}
ReqId == resp.req.announcement_id.hex
ReqExp == ParseExp(resp.req)
ReqStart == ParseStart(resp.req)
ReqStartGiven == HasStart(resp.req.start_date)

\* the three fields of a returned document, as the store would hold them
BodyFields(b) ==
    [message |-> b.message,
     start_date |-> IF b.start_date = None THEN None
                    ELSE Some(to_bson(fromisoformat(b.start_date[1]))),
     expiration_date |-> to_bson(fromisoformat(b.expiration_date))]

\* what C1 says of a state: the stored records, the updates about to write,
\* and the latest response
C1_StoredInv ==
    /\ \A id \in DOMAIN store :
          store[id].start_date # None => store[id].start_date[1] < store[id].expiration_date
    /\ \A s \in InFlightNow :
          s.pc = "update_one" /\ HasStart(s.req.start_date)
              => /\ comparable(ParseStart(s.req), ParseExp(s.req))
                 /\ instant(ParseStart(s.req)) < instant(ParseExp(s.req))
    /\ (resp.op \in {"create", "update"} /\ Returned /\ ReqExp.ok /\ ReqStartGiven
            /\ ReqStart.ok
            /\ (comparable(ReqStart, ReqExp) => instant(ReqStart) >= instant(ReqExp)))
          => resp.status \notin {StatusOK}
\* what C1 says of a step: a rejected create or update leaves the store as it was
C1_RejectedStep ==
    (resp' # resp /\ resp'.op \in {"create", "update"}
        /\ resp'.status \in {StatusBadRequest, StatusInternalError})
        => store' = store

(* C1: every stored announcement that has a start_date has start_date <     *)
(* expiration_date, under every interleaving of create, update and delete;  *)
(* a create or update whose start_date is at or after its expiration_date   *)
(* (the same instant included) is rejected, never reaches its write, and    *)
(* leaves the store as it was.                                              *)
C1_StartBeforeExpiration == []C1_StoredInv /\ [][C1_RejectedStep]_vars

\* an update is rejected for a start_date at the very instant of its
\* expiration_date, written in another zone, while a record with a start_date
\* is stored and another update is about to write
C1_Witness ==
    /\ resp.op = "update" /\ resp.detail = "Start date must be before expiration date"
    /\ instant(ReqStart) = instant(ReqExp) /\ ReqStart.wall # ReqExp.wall
    /\ \E id \in DOMAIN store : store[id].start_date # None
    /\ \E s \in InFlightNow : s.pc = "update_one"

(* C2: get-active called at T returns exactly the stored announcements with *)
(* expiration_date > T and (start_date absent or start_date <= T).          *)
C2_ActiveExactly ==
    resp.op = "get_active" =>
        /\ \A id \in BodyIds :
              /\ id \in DOMAIN store
              /\ store[id].expiration_date > resp.clock
              /\ (store[id].start_date = None \/ store[id].start_date[1] <= resp.clock)
        /\ \A id \in DOMAIN store \ BodyIds :
              \/ resp.clock >= store[id].expiration_date
              \/ (store[id].start_date # None /\ store[id].start_date[1] > resp.clock)
        /\ Len(resp.body) = Cardinality(BodyIds)

\* both boundaries in one call: start_date = T returned, expiration_date = T not
C2_Witness ==
    /\ resp.op = "get_active"
    /\ \E id \in BodyIds : store[id].start_date = Some(resp.clock)
    /\ \E id \in DOMAIN store \ BodyIds : store[id].expiration_date = resp.clock

(* C3 (as claimed): create with a valid credential and a non-empty message  *)
(* fails with InvalidArgument whenever the parsed expiration_date is <= the *)
(* current time, for every accepted form of the date.                       *)
C3_PastExpirationIsInvalidArgument ==
    (resp.op = "create" /\ KnownCredential(resp.req) /\ ~MessageEmpty(resp.req.message)
        /\ ReqExp.ok /\ instant(ReqExp) <= resp.clock)
      => Kind(resp) = "InvalidArgument" /\ resp.status = StatusBadRequest

(* C4 (as claimed): create with a valid credential, a non-empty message, no *)
(* start_date and a future expiration_date written with a trailing 'Z'      *)
(* succeeds and returns the record: trimmed message, start_date absent.     *)
C4_CreateWithZoneMarkerSucceeds ==
    (resp.op = "create" /\ KnownCredential(resp.req) /\ ~MessageEmpty(resp.req.message)
        /\ resp.req.start_date = None /\ resp.req.expiration_date.form = "iso"
        /\ resp.req.expiration_date.zone = "Z" /\ instant(ReqExp) > resp.clock)
      => /\ resp.status = StatusOK
         /\ Len(resp.body) = 1
         /\ resp.body[1].message = strip(resp.req.message)
         /\ resp.body[1].start_date = None

\* what C5 says of a state
C5_Inv ==
    \A id \in DOMAIN store : store[id]._id = id /\ store[id].created_at = born[id]
\* the records a step changes
C5_Changed == {id \in DOMAIN store \cap DOMAIN store' : store'[id] # store[id]}
\* what C5 says of a step: it changes at most one record, that of an update
\* in flight, in its three fields; a failed update changes none
C5_Step ==
    /\ \A id \in C5_Changed :
          /\ C5_Changed = {id}
          /\ DOMAIN store' = DOMAIN store
          /\ store'[id]._id = store[id]._id /\ store'[id].created_at = store[id].created_at
          /\ \E s \in InFlightNow :
                s.pc = "update_one" /\ s.obj_id = id /\ Fields(store'[id]) = WriteData(s.req)
    /\ (resp' # resp /\ resp'.op = "update" /\ resp'.status # StatusOK) => store' = store

(* C5: a record's id and created_at stay what they were at creation for as  *)
(* long as it is stored, across successful and failed updates; the write of *)
(* an update on one id leaves every other record as it was, and a failed    *)
(* update writes nothing.                                                   *)
C5_UpdateKeepsIdAndCreatedAt == []C5_Inv /\ [][C5_Step]_vars

\* a successful update of one record while another, different one is stored
C5_Witness ==
    /\ resp.op = "update" /\ resp.status = StatusOK
    /\ ReqId \in DOMAIN store
    /\ Fields(store[ReqId]) = WriteData(resp.req)
    /\ \E other \in DOMAIN store \ {ReqId} :
          /\ Fields(store[other]) # Fields(store[ReqId])
          /\ store[other].created_at # store[ReqId].created_at

(* C6: once a delete of an id has succeeded the store never holds that id   *)
(* again (an update in flight does not re-insert it), every update or       *)
(* delete of that id that starts later with a valid credential fails with   *)
(* NotFound, and no get-active or get-all returns a record with that id.    *)
C6_DeletedStaysDeleted ==
    /\ \A id \in deleted : id \notin DOMAIN store
    /\ (resp.op \in {"update", "delete"} /\ resp.stale /\ KnownCredential(resp.req))
          => Kind(resp) = "NotFound" /\ resp.status = StatusNotFound
    /\ resp.op \in {"get_active", "get_all"} => BodyIds \cap deleted = {}

\* an update that was in flight when the delete ran has since written and
\* returned, and an update that started after the delete was answered NotFound
C6_Witness ==
    /\ resp.op = "update" /\ resp.stale /\ Kind(resp) = "NotFound"
    /\ ReqId \in deleted
    /\ \E s \in InFlightNow : s.pc = "reread" /\ s.obj_id = ReqId

(* C7 (as claimed): in get-all, create, update and delete a call with no    *)
(* credential fails with Unauthenticated, one with an unknown credential    *)
(* fails with Unauthorized, and the two kinds have distinct statuses.       *)
C7_DistinctAuthStatuses ==
    (resp.op \in AuthOps /\ Returned) =>
        /\ NoCredential(resp.req) => Kind(resp) = "Unauthenticated"
        /\ UnknownCredential(resp.req) =>
              Kind(resp) = "Unauthorized" /\ resp.status # StatusAuthRequired

(* C7 (amended): no credential fails with Unauthenticated and an unknown    *)
(* credential with Unauthorized, in all four operations; the two kinds      *)
(* carry the same status, 401, and differ in their message only, while      *)
(* InvalidArgument (400) and NotFound (404) have statuses of their own.     *)
C7_AuthKindsShareStatus ==
    (resp.op \in AuthOps /\ Returned) =>
        /\ NoCredential(resp.req) =>
              Kind(resp) = "Unauthenticated" /\ resp.status = StatusAuthRequired
        /\ UnknownCredential(resp.req) =>
              Kind(resp) = "Unauthorized" /\ resp.status = StatusAuthRequired
        /\ Kind(resp) \in {"Unauthenticated", "Unauthorized"} => ~KnownCredential(resp.req)
        /\ Kind(resp) = "InvalidArgument" => resp.status = StatusBadRequest
        /\ Kind(resp) = "NotFound" => resp.status = StatusNotFound
        /\ resp.status = StatusAuthRequired => Kind(resp) \in {"Unauthenticated", "Unauthorized"}
        /\ StatusBadRequest # StatusNotFound

C7_Witness ==
    /\ resp.op = "delete" /\ UnknownCredential(resp.req)
    /\ Kind(resp) = "Unauthorized" /\ resp.status = StatusAuthRequired
    /\ DOMAIN store # {}

(* C8: update with a valid credential, an existing id, a non-empty message, *)
(* no start_date and any parseable expiration_date, at or before the        *)
(* current time included, succeeds and stores that expiration_date; a       *)
(* successful create always wrote an expiration_date after the current time. *)
C8_UpdateSkipsFutureCheck ==
    /\ (resp.op = "update" /\ Returned /\ KnownCredential(resp.req)
            /\ resp.req.announcement_id.wellformed /\ ~MessageEmpty(resp.req.message)
            /\ ReqExp.ok /\ resp.req.start_date = None)
          => \/ /\ resp.status = StatusOK
                /\ ReqId \in DOMAIN store
                /\ store[ReqId].expiration_date = instant(ReqExp)
                /\ resp.body[1].expiration_date = DateStr(instant(ReqExp), "")
             \/ /\ Kind(resp) = "NotFound"
                /\ ReqId \notin DOMAIN store
    /\ (resp.op = "create" /\ resp.status = StatusOK)
          => /\ instant(fromisoformat(resp.body[1].expiration_date)) > resp.clock
             /\ store[resp.body[1]._id.hex].expiration_date > resp.clock

\* the scenario of the claim: a past expiration_date with a trailing 'Z'
C8_Witness ==
    /\ resp.op = "update" /\ resp.status = StatusOK
    /\ resp.req.expiration_date.zone = "Z" /\ resp.req.start_date = None
    /\ instant(ReqExp) < resp.clock
    /\ store[ReqId].expiration_date < now
    /\ store[ReqId].expiration_date < store[ReqId].created_at

(* C9 (as claimed): under every interleaving each call ends in success or   *)
(* in one of Unauthenticated, Unauthorized, InvalidArgument, NotFound.      *)
C9_EveryCallClassified ==
    Returned => Kind(resp) \in {"Success", "Unauthenticated", "Unauthorized",
                                "InvalidArgument", "NotFound"}

(* C10 (as claimed): a successful update returns the message, start_date    *)
(* and expiration_date this call supplied, also when other updates of the   *)
(* same id run concurrently, and the stored three fields come from one call. *)
C10_ReturnsOwnValues ==
    /\ (resp.op = "update" /\ resp.status = StatusOK)
          => BodyFields(resp.body[1]) = WriteData(resp.req)
    /\ \A id \in DOMAIN store : Fields(store[id]) = lastWrite[id]

(* C10 (amended): a successful update returns the record as re-read from    *)
(* the store: its message, start_date and expiration_date are the values    *)
(* this call supplied unless another update of the same id wrote between    *)
(* this call's write and its re-read, and then all three are the values of  *)
(* the last such update; the stored three fields always come from one       *)
(* single create or update call (last write wins, no mixing).               *)
C10_ReturnsLastWrite ==
    /\ (resp.op = "update" /\ resp.status = StatusOK)
          => /\ Len(resp.body) = 1
             /\ resp.body[1]._id = resp.req.announcement_id
             /\ BodyFields(resp.body[1]) =
                    IF resp.clobbered = None THEN WriteData(resp.req) ELSE resp.clobbered[1]
    /\ \A id \in DOMAIN store : Fields(store[id]) = lastWrite[id]

C10_Witness ==
    /\ resp.op = "update" /\ resp.status = StatusOK
    /\ resp.clobbered # None
    /\ BodyFields(resp.body[1]).message # WriteData(resp.req).message
    /\ BodyFields(resp.body[1]).start_date # WriteData(resp.req).start_date
    /\ BodyFields(resp.body[1]).expiration_date # WriteData(resp.req).expiration_date

====
